---------------------------- MODULE Spec2Model ----------------------------
(***************************************************************************)
(* Lockr: password generation, the Ansible-Vault backed password store and *)
(* the layered host health check of src/enhanced_unified_manager.py (and   *)
(* its older sibling src/unified_password_manager.py).                     *)
(*                                                                         *)
(* Four specifications share this module:                                  *)
(*   SpecGen    generate_secure_password on bounded lengths and alphabets  *)
(*   SpecProbe  one perform_health_check call, stage by stage              *)
(*   SpecVault  concurrent create_password / retrieve_password requests,   *)
(*              list_passwords calls and a death of the server process,    *)
(*              against the vault directory                                *)
(*   SpecRegistry  the session (login, logout, the guard of every route)   *)
(*              and concurrent requests against servers.json: index,       *)
(*              add_server, remove_server and the two health sweeps        *)
(***************************************************************************)
EXTENDS Integers, Sequences, FiniteSets, TLC

VARIABLES
    genLen,      \* requested length of the password being generated
    genOut,      \* the generated password, <<>> before the call returns
    ppc,         \* position inside perform_health_check
    net,         \* what the host answers to the probes and resource queries
    checks,      \* health_results["checks"]
    overall,     \* health_results["overall_status"]
    advice,      \* health_results["troubleshooting"]
    attempts,    \* ghost: the remote operations issued so far, in order
    now,         \* the wall clock, in whole seconds
    vault,       \* the entries of VAULT_DIR: pointer files, timestamp files,
                 \* version directories
    thread,      \* the request each server thread is handling and where it is
    audit,       \* the ACTION_LOG lines printed so far
    hist,        \* ghost: per (server, username), the successful creations
    started,     \* number of requests received so far
    faults,      \* number of environment faults injected so far
    listed,      \* the answers /api/list_passwords has given so far
    session,     \* the keys of the client's session
    registry,    \* servers.json: whether it exists and the list it holds
    mock,        \* the module-level list MOCK_SERVERS, in memory
    worker,      \* the registry request each server thread is handling
    reply,       \* the answer given to the latest answered request
    calls,       \* number of /api and / requests received so far
    added,       \* ghost: the names add_server has written and answered
                 \* success for, less those remove_server has written out
    changed,     \* ghost: the new password change_admin_password last
                 \* answered success for, "" when there is none
    lastLogin    \* ghost: the latest POST /login and what came of it

genVars   == <<genLen, genOut>>
probeVars == <<ppc, net, checks, overall, advice, attempts>>
vaultVars == <<now, vault, thread, audit, hist, started, faults, listed>>
regVars   == <<session, registry, mock, worker, reply, calls, added, changed,
               lastLogin>>
vars      == <<genLen, genOut, ppc, net, checks, overall, advice, attempts,
               now, vault, thread, audit, hist, started, faults, listed,
               session, registry, mock, worker, reply, calls, added, changed,
               lastLogin>>

None == "None"

(***************************************************************************)
(* generate_secure_password                                                *)
(***************************************************************************)

\* Largest requested length explored.
MaxGenLen == 5

\* Bounded samples of the four character classes of the source.
lowercase == {"a", "b"}
uppercase == {"A"}
digits    == {"1"}
symbols   == {"!", "_"}
all_chars == lowercase \cup uppercase \cup digits \cup symbols

Lengths == 0..MaxGenLen

\* len(range(n)): a negative or zero count yields no iteration.
RangeLen(n) == IF n > 0 THEN n ELSE 0

\* the number of characters appended after the four mandatory ones
FillCount(length) == RangeLen(length - 4)

\* faulty variant: the symbol class is left out of the mandatory characters
RequiredCharsNoSymbol(l, u, d, s) == <<l, u, d, l>>
\* the four mandatory characters, one secrets.choice per class
RequiredChars(l, u, d, s) == <<l, u, d, s>>

\* SystemRandom().shuffle: the list rearranged by a permutation of its indices
Shuffle(list, perm) == [i \in 1..Len(list) |-> list[perm[i]]]

\* every value generate_secure_password(length) can return
generate_secure_password(length) ==
    { Shuffle(RequiredChars(l, u, d, s) \o fill, perm) :
        l \in lowercase, u \in uppercase, d \in digits, s \in symbols,
        fill \in [1..FillCount(length) -> all_chars],
        perm \in Permutations(1..(4 + FillCount(length))) }

GenInit ==
    /\ genLen \in Lengths
    /\ genOut = <<>>

Generate ==
    /\ genOut = <<>>
    /\ \E pw \in generate_secure_password(genLen) : genOut' = pw
    /\ UNCHANGED genLen
    /\ UNCHANGED <<probeVars, vaultVars, regVars>>

(***************************************************************************)
(* perform_health_check and its four stages                                *)
(***************************************************************************)

LoadThreshold == 4
MemoryThreshold == 95
DiskThreshold == 95

ports == <<22, 80, 443>>
SocketOutcomes == {"connect", "refused", "exception"}
\* "unavailable" is the FileNotFoundError subprocess.run raises when there is
\* no ping program; "exception" is any other exception
PingOutcomes == {"ok", "nonzero", "timeout", "unavailable", "exception"}

\* the first location of ping_locations accepted by the loop; the last one,
\* 'ping', is accepted whether or not it exists, so the result is never None
ping_cmd(usrBin, bin) ==
    IF usrBin THEN "/usr/bin/ping" ELSE IF bin THEN "/bin/ping" ELSE "ping"

\* index of the first port that connects, 0 when none does
RECURSIVE FirstConnect(_, _)
FirstConnect(tcp, i) ==
    IF i > Len(ports) THEN 0
    ELSE IF tcp[ports[i]] = "connect" THEN i
    ELSE FirstConnect(tcp, i + 1)

test_connectivity_socket(tcp) ==
    LET k == FirstConnect(tcp, 1) IN
    IF k # 0
    THEN [ping |-> TRUE, method |-> ports[k],
          io |-> [i \in 1..k |-> <<"tcp", ports[i]>>]]
    ELSE [ping |-> FALSE, method |-> 0,
          io |-> [i \in 1..Len(ports) |-> <<"tcp", ports[i]>>]]

Tips(n) == [i \in 1..n |-> "tip"]

test_connectivity_detailed(cmd, ping, tcp) ==
    IF cmd # None
    THEN CASE ping = "ok" ->
                [status |-> "online", method |-> "ping",
                 troubleshooting |-> <<>>, io |-> <<<<"ping", 0>>>>]
           [] ping = "nonzero" ->
                LET socket_result == test_connectivity_socket(tcp) IN
                IF socket_result.ping
                THEN [status |-> "online", method |-> "port",
                      troubleshooting |-> Tips(1),
                      io |-> <<<<"ping", 0>>>> \o socket_result.io]
                ELSE [status |-> "offline", method |-> "ping",
                      troubleshooting |-> Tips(5),
                      io |-> <<<<"ping", 0>>>> \o socket_result.io]
           [] ping = "timeout" ->
                [status |-> "offline", method |-> "ping",
                 troubleshooting |-> Tips(4), io |-> <<<<"ping", 0>>>>]
           [] OTHER ->
                [status |-> "error", method |-> "unknown",
                 troubleshooting |-> Tips(3), io |-> <<<<"ping", 0>>>>]
    ELSE LET socket_result == test_connectivity_socket(tcp) IN
         IF socket_result.ping
         THEN [status |-> "online", method |-> "port",
               troubleshooting |-> <<>>, io |-> socket_result.io]
         ELSE [status |-> "offline", method |-> "socket",
               troubleshooting |-> Tips(4), io |-> socket_result.io]

\* faulty variant: the except clause is missing, so a socket error leaves the function
test_ssh_port_detailed_unguarded(sock) ==
    CASE sock = "connect" ->
            [status |-> "open", troubleshooting |-> <<>>,
             io |-> <<<<"ssh_port", 22>>>>]
      [] sock = "refused" ->
            [status |-> "closed", troubleshooting |-> Tips(6),
             io |-> <<<<"ssh_port", 22>>>>]
      [] OTHER ->
            [status |-> "RAISED", troubleshooting |-> <<>>,
             io |-> <<<<"ssh_port", 22>>>>]

test_ssh_port_detailed(sock) ==
    CASE sock = "connect" ->
            [status |-> "open", troubleshooting |-> <<>>,
             io |-> <<<<"ssh_port", 22>>>>]
      [] sock = "refused" ->
            [status |-> "closed", troubleshooting |-> Tips(6),
             io |-> <<<<"ssh_port", 22>>>>]
      [] OTHER ->
            [status |-> "error", troubleshooting |-> Tips(3),
             io |-> <<<<"ssh_port", 22>>>>]

AuthOutcomes == {"ok", "auth_exception", "ssh_exception", "other_exception",
                 "key_load_error"}

\* faulty variant: the SSHException clause comes first and, AuthenticationException
\* being a subclass of SSHException, takes the rejected credential too
test_ssh_authentication_detailed_ssh_first(keyExists, outcome) ==
    IF ~keyExists
    THEN [status |-> "no_key", troubleshooting |-> Tips(4), io |-> <<>>]
    ELSE CASE outcome = "ok" ->
                [status |-> "authenticated", troubleshooting |-> <<>>,
                 io |-> <<<<"auth_connect", 22>>>>]
           [] outcome \in {"auth_exception", "ssh_exception"} ->
                [status |-> "ssh_error", troubleshooting |-> Tips(4),
                 io |-> <<<<"auth_connect", 22>>>>]
           [] outcome = "key_load_error" ->
                [status |-> "ssh_error", troubleshooting |-> Tips(4),
                 io |-> <<>>]
           [] OTHER ->
                [status |-> "error", troubleshooting |-> Tips(3),
                 io |-> <<<<"auth_connect", 22>>>>]

test_ssh_authentication_detailed(keyExists, outcome) ==
    IF ~keyExists
    THEN [status |-> "no_key", troubleshooting |-> Tips(4), io |-> <<>>]
    ELSE CASE outcome = "ok" ->
                [status |-> "authenticated", troubleshooting |-> <<>>,
                 io |-> <<<<"auth_connect", 22>>>>]
           [] outcome = "auth_exception" ->
                [status |-> "auth_failed", troubleshooting |-> Tips(6),
                 io |-> <<<<"auth_connect", 22>>>>]
           [] outcome = "ssh_exception" ->
                [status |-> "ssh_error", troubleshooting |-> Tips(4),
                 io |-> <<<<"auth_connect", 22>>>>]
           [] outcome = "key_load_error" ->
                [status |-> "ssh_error", troubleshooting |-> Tips(4),
                 io |-> <<>>]
           [] OTHER ->
                [status |-> "error", troubleshooting |-> Tips(3),
                 io |-> <<<<"auth_connect", 22>>>>]


\* what one remote query returns: the command failed, printed nothing, printed
\* something float() rejects, or printed a number
Readings(threshold) ==
    { [kind |-> "exec_error", v |-> 0], [kind |-> "empty", v |-> 0],
      [kind |-> "junk", v |-> 0],
      [kind |-> "value", v |-> threshold], [kind |-> "value", v |-> threshold + 1] }

\* faulty variant: a reading equal to its threshold counts as an issue
ExceedsOrEquals(reading, threshold) == reading.kind = "value" /\ reading.v >= threshold

\* `if x and float(x) > threshold`, inside its own try
Exceeds(reading, threshold) == reading.kind = "value" /\ reading.v > threshold

\* the entry appended to details for one query
Detail(reading) ==
    IF reading.kind \in {"exec_error", "junk"} THEN "Unable to check"
    ELSE IF reading.kind = "empty" THEN "" ELSE "value"

check_system_resources_detailed(conn, load, mem, disk, up) ==
    IF conn # "ok"
    THEN [status |-> "error", details |-> <<>>, issues |-> <<>>,
          troubleshooting |-> Tips(3), io |-> <<<<"resource_connect", 22>>>>]
    ELSE LET issues ==
                 (IF Exceeds(load, LoadThreshold) THEN <<"cpu">> ELSE <<>>)
              \o (IF Exceeds(mem, MemoryThreshold) THEN <<"memory">> ELSE <<>>)
              \o (IF Exceeds(disk, DiskThreshold) THEN <<"disk">> ELSE <<>>)
             details == <<Detail(load), Detail(mem), Detail(disk), Detail(up)>>
             io == <<<<"resource_connect", 22>>, <<"exec", 1>>, <<"exec", 2>>,
                     <<"exec", 3>>, <<"exec", 4>>>>
         IN IF issues # <<>>
            THEN [status |-> "issues", details |-> details, issues |-> issues,
                  troubleshooting |-> Tips(5), io |-> io]
            ELSE [status |-> "healthy", details |-> details, issues |-> <<>>,
                  troubleshooting |-> <<>>, io |-> io]

\* the placeholder recorded when the resource stage is not run
resources_skipped ==
    [status |-> "unknown", details |-> <<>>, issues |-> <<>>,
     troubleshooting |-> Tips(1), io |-> <<>>]

\* checks.get(stage, {}).get("status")
StatusOf(c, stage) == IF stage \in DOMAIN c THEN c[stage].status ELSE None

generate_troubleshooting_recommendations(c) ==
    LET recommendations ==
             (IF StatusOf(c, "connectivity") = "offline"
              THEN <<"connectivity">> ELSE <<>>)
          \o (IF StatusOf(c, "ssh_port") = "closed"
              THEN <<"ssh_port">> ELSE <<>>)
          \o (IF StatusOf(c, "ssh_auth") \in {"auth_failed", "no_key"}
              THEN <<"ssh_auth">> ELSE <<>>)
          \o (IF StatusOf(c, "system_resources") = "issues"
              THEN <<"system_resources">> ELSE <<>>)
    IN IF recommendations = <<>> THEN <<"all_normal">> ELSE recommendations

\* faulty variant: the authentication test is made before the port test
overall_status_auth_first(connectivity_status, ssh_port_status, ssh_auth_status, system_resources_status) ==
    IF connectivity_status = "offline" THEN "unhealthy"
    ELSE IF ssh_auth_status \in {"auth_failed", "no_key"} THEN "degraded"
    ELSE IF ssh_port_status = "closed" THEN "unhealthy"
    ELSE IF system_resources_status = "issues" THEN "degraded"
    ELSE "healthy"

\* lines 117-137: the overall status from the four stage statuses
overall_status(connectivity_status, ssh_port_status, ssh_auth_status, system_resources_status) ==
    IF connectivity_status = "offline" THEN "unhealthy"
    ELSE IF ssh_port_status = "closed" THEN "unhealthy"
    ELSE IF ssh_auth_status \in {"auth_failed", "no_key"} THEN "degraded"
    ELSE IF system_resources_status = "issues"
         THEN IF /\ connectivity_status = "online"
                 /\ ssh_port_status = "open"
                 /\ ssh_auth_status = "authenticated"
              THEN "degraded" ELSE "degraded"
    ELSE "healthy"

Stages == {"connectivity", "ssh_port", "ssh_auth", "system_resources"}
PortSet == {ports[i] : i \in 1..Len(ports)}

\* a stage result standing for an exception that left the stage function
Raised(r) == r.status = "RAISED"

\* the except clause of perform_health_check (lines 141-148)
HandlerResult ==
    [status |-> "error", troubleshooting |-> Tips(2), io |-> <<>>]

\* what the resource stage has been answered: nothing before it runs
NoReadings ==
    [conn |-> None, load |-> [kind |-> "none", v |-> 0],
     mem |-> [kind |-> "none", v |-> 0], disk |-> [kind |-> "none", v |-> 0]]

ProbeInit ==
    /\ ppc = "connectivity"
    /\ net = [ping |-> None, tcp |-> <<>>, key |-> FALSE, auth |-> None,
              res |-> NoReadings]
    /\ checks = <<>>
    /\ overall = "unknown"
    /\ advice = <<>>
    /\ attempts = <<>>

\* one stage's result recorded, or the handler entered when the stage raised
Record(stage, r, next) ==
    IF Raised(r)
    THEN /\ checks' = ("error" :> HandlerResult) @@ checks
         /\ overall' = "error"
         /\ ppc' = "done"
         /\ UNCHANGED <<advice, attempts>>
    ELSE /\ checks' = (stage :> r) @@ checks
         /\ attempts' = attempts \o r.io
         /\ ppc' = next
         /\ UNCHANGED <<overall, advice>>

StageConnectivity ==
    /\ ppc = "connectivity"
    /\ \E usrBin \in BOOLEAN, bin \in BOOLEAN, ping \in PingOutcomes,
          tcp \in [PortSet -> SocketOutcomes] :
          /\ net' = [net EXCEPT !.ping = ping, !.tcp = tcp]
          /\ Record("connectivity",
                    test_connectivity_detailed(ping_cmd(usrBin, bin), ping, tcp),
                    "ssh_port")
    /\ UNCHANGED <<genVars, vaultVars, regVars>>

StageSshPort ==
    /\ ppc = "ssh_port"
    /\ \E sock \in SocketOutcomes :
          Record("ssh_port", test_ssh_port_detailed(sock), "ssh_auth")
    /\ UNCHANGED net
    /\ UNCHANGED <<genVars, vaultVars, regVars>>

StageSshAuth ==
    /\ ppc = "ssh_auth"
    /\ \E keyExists \in BOOLEAN, outcome \in AuthOutcomes :
          /\ net' = [net EXCEPT !.key = keyExists,
                                !.auth = IF keyExists THEN outcome ELSE None]
          /\ Record("ssh_auth", test_ssh_authentication_detailed(keyExists, outcome),
                    "system_resources")
    /\ UNCHANGED <<genVars, vaultVars, regVars>>

\* lines 103-139: the resource stage or its placeholder, then the aggregate
\* recommendations and the overall status
Conclude(r) ==
    IF Raised(r)
    THEN Record("system_resources", r, "done")
    ELSE LET c == ("system_resources" :> r) @@ checks IN
         /\ checks' = c
         /\ attempts' = attempts \o r.io
         /\ advice' = generate_troubleshooting_recommendations(c)
         /\ overall' = overall_status(StatusOf(c, "connectivity"),
                                      StatusOf(c, "ssh_port"),
                                      StatusOf(c, "ssh_auth"),
                                      StatusOf(c, "system_resources"))
         /\ ppc' = "done"

\* faulty variant: the resource stage is run whenever a key was found
StageResourcesUnlessNoKey ==
    /\ ppc = "system_resources"
    /\ IF checks["ssh_auth"].status # "no_key"
       THEN \E conn \in {"ok", "exception"},
               load \in Readings(LoadThreshold), mem \in Readings(MemoryThreshold),
               disk \in Readings(DiskThreshold),
               up \in {[kind |-> "exec_error", v |-> 0], [kind |-> "empty", v |-> 0]} :
               /\ Conclude(check_system_resources_detailed(conn, load, mem, disk, up))
               /\ net' = [net EXCEPT !.res = [conn |-> conn, load |-> load,
                                               mem |-> mem, disk |-> disk]]
       ELSE Conclude(resources_skipped) /\ UNCHANGED net
    /\ UNCHANGED <<genVars, vaultVars, regVars>>

StageResources ==
    /\ ppc = "system_resources"
    /\ IF checks["ssh_auth"].status = "authenticated"
       THEN \E conn \in {"ok", "exception"},
               load \in Readings(LoadThreshold), mem \in Readings(MemoryThreshold),
               disk \in Readings(DiskThreshold),
               up \in {[kind |-> "exec_error", v |-> 0], [kind |-> "empty", v |-> 0]} :
               /\ Conclude(check_system_resources_detailed(conn, load, mem, disk, up))
               /\ net' = [net EXCEPT !.res = [conn |-> conn, load |-> load,
                                               mem |-> mem, disk |-> disk]]
       ELSE Conclude(resources_skipped) /\ UNCHANGED net
    /\ UNCHANGED <<genVars, vaultVars, regVars>>

ProbeNext ==
    \/ StageConnectivity
    \/ StageSshPort
    \/ StageSshAuth
    \/ StageResources


(***************************************************************************)
(* The vault: create_vault_structure, retrieve_password_from_vault and the *)
(* two routes that call them, run by concurrent request threads            *)
(***************************************************************************)

\* Last clock value explored.
MaxTime == 1
\* Requests received in one run.
MaxRequests == 2
\* Request threads of the server.
NumThreads == 2
\* Environment faults (I/O errors, tool failures) injected in one run.
MaxFaults == 1

Threads == 1..NumThreads

\* names are sequences of characters; some contain the separator "_"
Servers   == { <<"a">>, <<"a", "_", "b">> }
Usernames == { <<"c">>, <<"b", "_", "c">> }
\* the (server, username) pairs requests are made for: two that join to the
\* same "a_b_c" and one that does not
Pairs     == (Servers \X Usernames) \ { <<<<"a", "_", "b">>, <<"b", "_", "c">>>> }

\* two of the passwords generate_secure_password(4) can return
SamplePasswords ==
    generate_secure_password(4)
        \cap { <<"a", "A", "1", "!">>, <<"_", "1", "A", "b">> }

\* datetime.now().strftime("%Y-%m-%d_%H-%M-%S"): date, "_", time of day, at
\* one-second resolution
strftime(t) == <<"0", "_", ToString(t)>>

\* datetime.now().strftime("%Y-%m-%d %H:%M:%S"), the format of the timestamp
\* files and of last_updated
isotime(t) == <<"0", " ", ToString(t)>>

\* f"{server}_{username}"
Key(server, username) == server \o <<"_">> \o username

current_file(server, username) ==
    Key(server, username) \o <<"_", "c", "u", "r", "r", "e", "n", "t">>
timestamp_file(server, username) ==
    Key(server, username) \o <<"_", "t", "i", "m", "e", "s", "t", "a", "m", "p">>
vault_dir(server, username, t) ==
    Key(server, username) \o <<"_">> \o strftime(t)
password_file(dir) == <<dir, "password.txt">>
encrypted_file(dir) == <<dir, "password.txt.vault">>

\* entries of VAULT_DIR
File(data) == [type |-> "file", data |-> data, files |-> <<>>, mtimes |-> <<>>]
Dir(files, mtimes) ==
    [type |-> "dir", data |-> <<>>, files |-> files, mtimes |-> mtimes]

\* os.path.exists of a file inside a version directory; <<>> is no path
FileExists(v, path) ==
    /\ path # <<>>
    /\ path[1] \in DOMAIN v
    /\ path[2] \in DOMAIN v[path[1]].files
ReadFile(v, path) == v[path[1]].files[path[2]]
\* os.path.getmtime(path), in seconds
getmtime(v, path) == v[path[1]].mtimes[path[2]]

\* os.makedirs(dir, exist_ok=True)
makedirs(v, dir) == IF dir \in DOMAIN v THEN v ELSE (dir :> Dir(<<>>, <<>>)) @@ v
\* open(path, 'w').write(data) inside a version directory
WriteIn(v, path, data) ==
    (path[1] :> Dir((path[2] :> data) @@ v[path[1]].files,
                    (path[2] :> now) @@ v[path[1]].mtimes)) @@ v
\* os.remove(path)
Remove(v, path) ==
    LET old == v[path[1]].files
        times == v[path[1]].mtimes
    IN (path[1] :> Dir([f \in DOMAIN old \ {path[2]} |-> old[f]],
                       [f \in DOMAIN old \ {path[2]} |-> times[f]])) @@ v
\* open(name, 'w').write(data) directly in VAULT_DIR
WriteEntry(v, name, data) == (name :> File(data)) @@ v

\* the content of the pointer file of a pair, <<>> when there is none
Pointer(v, server, username) ==
    IF current_file(server, username) \in DOMAIN v
    THEN v[current_file(server, username)].data ELSE <<>>

\* ansible-vault encrypt / decrypt, and the test decrypt makes of its input
Encrypt(plaintext) == <<"$ANSIBLE_VAULT", plaintext>>
IsVaultData(data) == Len(data) = 2 /\ data[1] = "$ANSIBLE_VAULT"
Decrypt(data) == data[2]

Whitespace == {" ", "\n", "\t"}
\* str.strip()
RECURSIVE LStrip(_)
LStrip(str) ==
    IF str # <<>> /\ Head(str) \in Whitespace THEN LStrip(Tail(str)) ELSE str
RECURSIVE RStrip(_)
RStrip(str) ==
    IF str # <<>> /\ str[Len(str)] \in Whitespace
    THEN RStrip(SubSeq(str, 1, Len(str) - 1)) ELSE str
Strip(str) == RStrip(LStrip(str))

\* str.endswith(suffix)
EndsWith(str, suffix) ==
    /\ Len(str) >= Len(suffix)
    /\ SubSeq(str, Len(str) - Len(suffix) + 1, Len(str)) = suffix
\* str.startswith(prefix)
StartsWith(str, prefix) ==
    Len(str) >= Len(prefix) /\ SubSeq(str, 1, Len(prefix)) = prefix
\* str.replace(old, new): every occurrence, left to right
RECURSIVE Replace(_, _, _)
Replace(str, old, new) ==
    IF str = <<>> THEN <<>>
    ELSE IF StartsWith(str, old)
    THEN new \o Replace(SubSeq(str, Len(old) + 1, Len(str)), old, new)
    ELSE <<Head(str)>> \o Replace(Tail(str), old, new)
\* str.split(sep, 1) for a one-character sep: cut at the first sep, if any
Split1(str, sep) ==
    IF \E i \in 1..Len(str) : str[i] = sep
    THEN LET i == CHOOSE j \in 1..Len(str) :
                     str[j] = sep /\ \A h \in 1..(j - 1) : str[h] # sep
         IN <<SubSeq(str, 1, i - 1), SubSeq(str, i + 1, Len(str))>>
    ELSE <<str>>

Idle ==
    [pc |-> "idle", op |-> "none", server |-> <<>>, username |-> <<>>,
     password |-> <<>>, dir |-> <<>>, path |-> <<>>, result |-> "none",
     out |-> <<>>,
     \* ghost fields
     before |-> <<>>, fault |-> FALSE, quiet |-> FALSE, seen |-> 0,
     expect |-> <<>>]

\* what is left of a request once it is answered
Answered(r, result, out) ==
    [Idle EXCEPT !.pc = "done", !.op = r.op, !.server = r.server,
                 !.username = r.username, !.result = result, !.out = out,
                 !.before = r.before, !.fault = r.fault, !.quiet = r.quiet,
                 !.expect = r.expect]

VaultInit ==
    /\ now = 0
    /\ vault = <<>>
    /\ thread = [t \in Threads |-> Idle]
    /\ audit = <<>>
    /\ hist = [k \in Pairs |-> [calls |-> 0, n |-> 0, last |-> <<>>,
                                 clean |-> FALSE, t0 |-> 0, t1 |-> 0]]
    /\ started = 0
    /\ faults = 0
    /\ listed = <<>>

\* log_action: one ACTION_LOG line
log_action(log, user, action, server, target_user, status) ==
    Append(log, [user |-> user, action |-> action, server |-> server,
                 target_user |-> target_user, status |-> status])

\* ghost: a create step touched the files of the joined key of (server, username)
Dirty(h, server, username) ==
    [k \in Pairs |->
        IF Key(k[1], k[2]) = Key(server, username)
        THEN [h[k] EXCEPT !.clean = FALSE] ELSE h[k]]

\* ghost: the second a version directory name carries
DirTime(server, username, dir) ==
    CHOOSE t \in 0..MaxTime : vault_dir(server, username, t) = dir

\* ghost: a creation on the joined key of (server, username) is completing now
Touched(h, server, username) ==
    [k \in Pairs |->
        IF Key(k[1], k[2]) = Key(server, username)
        THEN [h[k] EXCEPT !.t1 = now] ELSE h[k]]

\* ghost: the create_vault_structure calls begun so far on the joined key
RECURSIVE SumCalls(_, _)
SumCalls(h, S) ==
    IF S = {} THEN 0
    ELSE LET k == CHOOSE x \in S : TRUE IN h[k].calls + SumCalls(h, S \ {k})
KeyCalls(h, server, username) ==
    SumCalls(h, {k \in Pairs : Key(k[1], k[2]) = Key(server, username)})

\* ghost: thread u is inside create_vault_structure for the same joined key
Creating(u, server, username) ==
    /\ thread[u].op = "create"
    /\ thread[u].pc \notin {"idle", "done", "c_touch", "crashed"}
    /\ Key(thread[u].server, thread[u].username) = Key(server, username)

\* ghost: no other create_vault_structure call on the key overlapped this one
SoloCreate(t) ==
    /\ thread[t].quiet
    /\ KeyCalls(hist, thread[t].server, thread[t].username) = thread[t].seen

\* a thread that is not handling a request; a request arriving is given to the
\* lowest-numbered one (the threads are interchangeable)
Free(t) == thread[t].pc \in {"idle", "done"}
Takes(t) == Free(t) /\ \A u \in Threads : u < t => ~Free(u)

\* the environment lets an operation succeed (ok) or, within the budget of
\* injected faults, makes it fail
Env(ok) ==
    /\ ok \/ faults < MaxFaults
    /\ faults' = IF ok THEN faults ELSE faults + 1

Tick ==
    /\ now < MaxTime
    /\ \A t \in Threads : thread[t].pc # "crashed"
    /\ now' = now + 1
    /\ UNCHANGED <<vault, thread, audit, hist, started, faults>>
    /\ UNCHANGED <<genVars, probeVars, regVars, listed>>

\* a response sent without reaching the vault
Respond(t, code) ==
    thread' = [thread EXCEPT ![t] = [Idle EXCEPT !.pc = "done", !.result = code]]

\* /api/create_password up to the call of create_vault_structure
StartCreate(t) ==
    /\ Takes(t)
    /\ started < MaxRequests
    /\ started' = started + 1
    /\ \E inSession \in BOOLEAN,
          req \in Pairs \cup {<<<<>>, <<"c">>>>, <<<<"a">>, <<>>>>},
          pw \in SamplePasswords :
          LET server == req[1]
              username == req[2]
          IN
          IF ~inSession
          THEN Respond(t, "401") /\ UNCHANGED hist
          ELSE IF server = <<>> \/ username = <<>>
          THEN Respond(t, "400") /\ UNCHANGED hist
          ELSE /\ thread' = [thread EXCEPT ![t] =
                     [Idle EXCEPT !.pc = "c_mkdir", !.op = "create",
                                  !.server = server, !.username = username,
                                  !.password = pw,
                                  !.before = Pointer(vault, server, username),
                                  !.seen = KeyCalls(hist, server, username) + 1,
                                  !.quiet = \A u \in Threads \ {t} :
                                               ~Creating(u, server, username)]]
               /\ hist' = [hist EXCEPT ![<<server, username>>].calls = @ + 1]
    /\ UNCHANGED <<now, vault, audit, faults>>
    /\ UNCHANGED <<genVars, probeVars, regVars, listed>>

\* create_vault_structure returned success: False; the route logs and answers
CreateFails(t) ==
    /\ thread' = [thread EXCEPT ![t] =
          Answered([thread[t] EXCEPT !.quiet = SoloCreate(t)], "failed", <<>>)]
    /\ audit' = log_action(audit, "admin", "create", thread[t].server,
                           thread[t].username, "failed")
    /\ hist' = Dirty(hist, thread[t].server, thread[t].username)

\* a step of create_vault_structure that goes on to the next one
CreateGoes(t, next) ==
    /\ thread' = [thread EXCEPT ![t].pc = next]
    /\ hist' = Dirty(hist, thread[t].server, thread[t].username)
    /\ UNCHANGED audit

\* lines 958-962: the timestamp and the version directory
CreateMkdir(t) ==
    /\ thread[t].pc = "c_mkdir"
    /\ \E ok \in BOOLEAN :
          /\ Env(ok)
          /\ IF ok
             THEN LET dir == vault_dir(thread[t].server, thread[t].username, now) IN
                  /\ vault' = makedirs(vault, dir)
                  /\ thread' = [thread EXCEPT ![t].pc = "c_plain", ![t].dir = dir]
                  /\ hist' = Dirty(hist, thread[t].server, thread[t].username)
                  /\ UNCHANGED audit
             ELSE CreateFails(t) /\ UNCHANGED vault
    /\ UNCHANGED <<now, started>>
    /\ UNCHANGED <<genVars, probeVars, regVars, listed>>

\* lines 965-967: the plaintext password file
CreatePlain(t) ==
    /\ thread[t].pc = "c_plain"
    /\ \E ok \in BOOLEAN :
          /\ Env(ok)
          /\ IF ok
             THEN /\ vault' = WriteIn(vault, password_file(thread[t].dir),
                                      thread[t].password)
                  /\ CreateGoes(t, "c_pointer")
             ELSE CreateFails(t) /\ UNCHANGED vault
    /\ UNCHANGED <<now, started>>
    /\ UNCHANGED <<genVars, probeVars, regVars, listed>>

\* lines 970-972: the pointer file, naming the plaintext file
CreatePointer(t) ==
    /\ thread[t].pc = "c_pointer"
    /\ \E ok \in BOOLEAN :
          /\ Env(ok)
          /\ IF ok
             THEN /\ vault' = WriteEntry(vault,
                                 current_file(thread[t].server, thread[t].username),
                                 password_file(thread[t].dir))
                  /\ CreateGoes(t, "c_timestamp")
             ELSE CreateFails(t) /\ UNCHANGED vault
    /\ UNCHANGED <<now, started>>
    /\ UNCHANGED <<genVars, probeVars, regVars, listed>>

\* lines 975-978: the timestamp file
CreateTimestamp(t) ==
    /\ thread[t].pc = "c_timestamp"
    /\ \E ok \in BOOLEAN :
          /\ Env(ok)
          /\ IF ok
             THEN /\ vault' = WriteEntry(vault,
                                 timestamp_file(thread[t].server, thread[t].username),
                                 isotime(now))
                  /\ CreateGoes(t, "c_encrypt")
             ELSE CreateFails(t) /\ UNCHANGED vault
    /\ UNCHANGED <<now, started>>
    /\ UNCHANGED <<genVars, probeVars, regVars, listed>>

\* lines 994-1000 and 1014-1018: ansible-vault encrypt reads the plaintext file
\* as it is now and, exiting 0, writes (or replaces) the encrypted file
CreateEncrypt(t) ==
    /\ thread[t].pc = "c_encrypt"
    /\ \E tool \in {"exit0", "nonzero", "timeout"} :
          /\ Env(tool = "exit0")
          /\ IF tool = "exit0" /\ FileExists(vault, password_file(thread[t].dir))
             THEN /\ vault' = WriteIn(vault, encrypted_file(thread[t].dir),
                               Encrypt(ReadFile(vault, password_file(thread[t].dir))))
                  /\ CreateGoes(t, "c_remove")
             ELSE CreateFails(t) /\ UNCHANGED vault
    /\ UNCHANGED <<now, started>>
    /\ UNCHANGED <<genVars, probeVars, regVars, listed>>

\* faulty variant: the plaintext file is left in place
CreateRemoveKeepsPlain(t) ==
    /\ thread[t].pc = "c_remove"
    /\ IF FileExists(vault, password_file(thread[t].dir))
       THEN /\ UNCHANGED vault
            /\ CreateGoes(t, "c_swap")
       ELSE CreateFails(t) /\ UNCHANGED vault
    /\ UNCHANGED <<now, started, faults>>
    /\ UNCHANGED <<genVars, probeVars, regVars, listed>>

\* line 1002: os.remove(password_file), FileNotFoundError when it is gone
CreateRemove(t) ==
    /\ thread[t].pc = "c_remove"
    /\ IF FileExists(vault, password_file(thread[t].dir))
       THEN /\ vault' = Remove(vault, password_file(thread[t].dir))
            /\ CreateGoes(t, "c_swap")
       ELSE CreateFails(t) /\ UNCHANGED vault
    /\ UNCHANGED <<now, started, faults>>
    /\ UNCHANGED <<genVars, probeVars, regVars, listed>>

\* faulty variant: the pointer is not rewritten after the plaintext file is removed
CreateSwapSkipsPointer(t) ==
    /\ thread[t].pc = "c_swap"
    /\ thread' = [thread EXCEPT ![t].pc = "c_touch"]
    /\ hist' = [Dirty(hist, thread[t].server, thread[t].username)
                  EXCEPT ![<<thread[t].server, thread[t].username>>] =
                      [@ EXCEPT !.n = @ + 1, !.last = thread[t].password,
                                !.clean = TRUE, !.t1 = now,
                                !.t0 = DirTime(thread[t].server,
                                               thread[t].username, thread[t].dir)]]
    /\ UNCHANGED <<now, vault, audit, started, faults>>
    /\ UNCHANGED <<genVars, probeVars, regVars, listed>>

\* lines 1005-1013: the pointer rewritten to name the encrypted file
CreateSwap(t) ==
    /\ thread[t].pc = "c_swap"
    /\ \E ok \in BOOLEAN :
          /\ Env(ok)
          /\ IF ok
             THEN /\ vault' = WriteEntry(vault,
                                 current_file(thread[t].server, thread[t].username),
                                 encrypted_file(thread[t].dir))
                  /\ thread' = [thread EXCEPT ![t].pc = "c_touch"]
                  /\ hist' = [Dirty(hist, thread[t].server, thread[t].username)
                                EXCEPT ![<<thread[t].server, thread[t].username>>] =
                                    [@ EXCEPT !.n = @ + 1,
                                              !.last = thread[t].password,
                                              !.clean = TRUE, !.t1 = now,
                                              !.t0 = DirTime(thread[t].server,
                                                             thread[t].username,
                                                             thread[t].dir)]]
                  /\ UNCHANGED audit
             ELSE CreateFails(t) /\ UNCHANGED vault
    /\ UNCHANGED <<now, started>>
    /\ UNCHANGED <<genVars, probeVars, regVars, listed>>

\* update_password_timestamp: a failed write is logged and swallowed
update_password_timestamp(v, server, username, ok) ==
    IF ok THEN WriteEntry(v, timestamp_file(server, username), isotime(now))
    ELSE v

\* /api/create_password after a successful create_vault_structure
CreateTouch(t) ==
    /\ thread[t].pc = "c_touch"
    /\ \E ok \in BOOLEAN :
          /\ Env(ok)
          /\ vault' = update_password_timestamp(vault, thread[t].server,
                                                thread[t].username, ok)
    /\ audit' = log_action(audit, "admin", "create", thread[t].server,
                           thread[t].username, "success")
    /\ thread' = [thread EXCEPT ![t] =
          Answered([thread[t] EXCEPT !.quiet = SoloCreate(t)], "success",
                   thread[t].password)]
    /\ hist' = Touched(hist, thread[t].server, thread[t].username)
    /\ UNCHANGED <<now, started>>
    /\ UNCHANGED <<genVars, probeVars, regVars, listed>>

\* /api/retrieve_password up to the call of retrieve_password_from_vault
StartRetrieve(t) ==
    /\ Takes(t)
    /\ started < MaxRequests
    /\ started' = started + 1
    /\ \E inSession \in BOOLEAN, req \in Pairs \cup {<<<<>>, <<"c">>>>} :
          LET server == req[1]
              username == req[2]
          IN
          IF ~inSession THEN Respond(t, "401")
          ELSE IF server = <<>> THEN Respond(t, "400")
          ELSE thread' = [thread EXCEPT ![t] =
                  [Idle EXCEPT !.pc = "r_read", !.op = "retrieve",
                               !.server = server, !.username = username,
                               !.seen = hist[<<server, username>>].n,
                               !.expect = hist[<<server, username>>].last,
                               !.quiet = hist[<<server, username>>].clean]]
    /\ UNCHANGED <<now, vault, audit, hist, faults>>
    /\ UNCHANGED <<genVars, probeVars, regVars, listed>>

\* faulty variant: a missing pointer is reported like a failed decryption
ErrorTextConflated(kind) ==
    CASE kind = "not_found" -> "Vault decryption failed: "
      [] kind = "missing" -> "Vault file not found: "
      [] kind = "decrypt_failed" -> "Vault decryption failed: "
      [] OTHER -> "Error retrieving password: "

\* the error message of each failure of retrieve_password_from_vault, up to
\* the text interpolated into it
ErrorText(kind) ==
    CASE kind = "not_found" -> "No password found for "
      [] kind = "missing" -> "Vault file not found: "
      [] kind = "decrypt_failed" -> "Vault decryption failed: "
      [] OTHER -> "Error retrieving password: "

\* ghost: no create step has touched the key since the retrieval began
StillQuiet(t) ==
    LET h == hist[<<thread[t].server, thread[t].username>>] IN
    thread[t].quiet /\ h.clean /\ h.n = thread[t].seen

\* faulty variant: a failed retrieval is answered without being logged
RetrieveFailsUnlogged(t, kind, fault) ==
    /\ thread' = [thread EXCEPT ![t] =
          Answered([thread[t] EXCEPT !.fault = fault, !.quiet = StillQuiet(t)],
                   kind, <<>>)]
    /\ UNCHANGED audit

\* retrieve_password_from_vault returned success: False; the route logs 'failed'
RetrieveFails(t, kind, fault) ==
    /\ thread' = [thread EXCEPT ![t] =
          Answered([thread[t] EXCEPT !.fault = fault, !.quiet = StillQuiet(t)],
                   kind, <<>>)]
    /\ audit' = log_action(audit, "admin", "retrieve", thread[t].server,
                           thread[t].username, "failed")

\* lines 1029-1040: the pointer file looked up and read
RetrieveRead(t) ==
    /\ thread[t].pc = "r_read"
    /\ \E ok \in BOOLEAN :
          /\ Env(ok)
          /\ IF current_file(thread[t].server, thread[t].username)
                   \notin DOMAIN vault
             THEN ok /\ RetrieveFails(t, "not_found", FALSE)
             ELSE IF ~ok THEN RetrieveFails(t, "exception", TRUE)
             ELSE /\ thread' = [thread EXCEPT ![t].pc = "r_decrypt",
                        ![t].path = Pointer(vault, thread[t].server,
                                            thread[t].username)]
                  /\ UNCHANGED audit
    /\ UNCHANGED <<now, vault, hist, started>>
    /\ UNCHANGED <<genVars, probeVars, regVars, listed>>

\* lines 1042-1078: the named file checked and handed to ansible-vault decrypt,
\* which exits nonzero on input that is not vault data
RetrieveDecrypt(t) ==
    /\ thread[t].pc = "r_decrypt"
    /\ IF ~FileExists(vault, thread[t].path)
       THEN RetrieveFails(t, "missing", FALSE) /\ UNCHANGED faults
       ELSE \E tool \in {"exit0", "nonzero", "timeout"} :
               /\ Env(tool = "exit0")
               /\ IF tool # "exit0"
                  THEN RetrieveFails(t, "decrypt_failed", TRUE)
                  ELSE IF ~IsVaultData(ReadFile(vault, thread[t].path))
                  THEN RetrieveFails(t, "decrypt_failed", FALSE)
                  ELSE /\ thread' = [thread EXCEPT ![t].pc = "r_touch",
                             ![t].out = Strip(Decrypt(ReadFile(vault, thread[t].path))),
                             ![t].quiet = StillQuiet(t)]
                       /\ UNCHANGED audit
    /\ UNCHANGED <<now, vault, hist, started>>
    /\ UNCHANGED <<genVars, probeVars, regVars, listed>>

\* lines 1063-1073 and the route's success branch
RetrieveTouch(t) ==
    /\ thread[t].pc = "r_touch"
    /\ \E ok \in BOOLEAN :
          /\ Env(ok)
          /\ vault' = update_password_timestamp(vault, thread[t].server,
                                                thread[t].username, ok)
    /\ audit' = log_action(audit, "admin", "retrieve", thread[t].server,
                           thread[t].username, "success")
    /\ thread' = [thread EXCEPT ![t] =
                     Answered(thread[t], "success", thread[t].out)]
    /\ UNCHANGED <<now, hist, started>>
    /\ UNCHANGED <<genVars, probeVars, regVars, listed>>

\* os.listdir(VAULT_DIR): the entries in some order, the same for the same
\* directory content
RECURSIVE listdir_of(_)
listdir_of(S) ==
    IF S = {} THEN <<>>
    ELSE LET x == CHOOSE y \in S : TRUE IN <<x>> \o listdir_of(S \ {x})
listdir(v) == listdir_of(DOMAIN v)

CurrentSuffix == <<"_", "c", "u", "r", "r", "e", "n", "t">>
Unknown == <<"U", "n", "k", "n", "o", "w", "n">>
\* the local variable mtime before its first assignment
Unbound == -1

\* one element of the passwords list
PasswordEntry(server, username, last_updated) ==
    [server |-> server, username |-> username, last_updated |-> last_updated,
     status |-> "active"]

\* lines 1106-1145: the loop of list_all_passwords from the i-th directory
\* entry on. mtime is the local variable of that name, which keeps the value
\* of an earlier iteration; canWrite tells whether the timestamp files of
\* lines 1133-1138 can be written (a failure there is logged and swallowed).
\* The pointer content is a path that begins with VAULT_DIR and ends with a
\* file name, so strip() leaves it as it is.
RECURSIVE list_loop(_, _, _, _, _, _)
list_loop(names, i, v, mtime, passwords, canWrite) ==
    IF i > Len(names)
    THEN [success |-> TRUE, passwords |-> passwords, vault |-> v]
    ELSE
    LET file == names[i]
        parts == Split1(Replace(file, CurrentSuffix, <<>>), "_")
    IN
    IF ~EndsWith(file, CurrentSuffix) \/ Len(parts) # 2
    THEN list_loop(names, i + 1, v, mtime, passwords, canWrite)
    ELSE
    LET server == parts[1]
        username == parts[2]
        password_path == v[file].data
        stamp == timestamp_file(server, username)
    IN
    IF stamp \in DOMAIN v
    THEN list_loop(names, i + 1, v, mtime,
                   Append(passwords,
                          PasswordEntry(server, username, Strip(v[stamp].data))),
                   canWrite)
    ELSE
    LET exists == FileExists(v, password_path)
        mtime2 == IF exists THEN getmtime(v, password_path) ELSE mtime
        last_updated == IF exists THEN isotime(mtime2) ELSE Unknown
        v2 == IF mtime2 # Unbound /\ canWrite
              THEN WriteEntry(v, stamp, isotime(mtime2)) ELSE v
    IN list_loop(names, i + 1, v2, mtime2,
                 Append(passwords, PasswordEntry(server, username, last_updated)),
                 canWrite)

\* list_all_passwords on the vault v: the answer and the vault it leaves
list_all_passwords(v, canWrite) ==
    list_loop(listdir(v), 1, v, Unbound, <<>>, canWrite)

\* /api/list_passwords, handled in one step
ListPasswords ==
    /\ \A t \in Threads : thread[t].pc # "crashed"
    /\ started < MaxRequests
    /\ started' = started + 1
    /\ \E inSession \in BOOLEAN, io \in {"ok", "read_error", "write_error"} :
          /\ Env(io = "ok")
          /\ IF ~inSession
             THEN /\ io = "ok"
                  /\ listed' = Append(listed, [code |-> "401", success |-> FALSE,
                                               passwords |-> <<>>])
                  /\ UNCHANGED vault
             ELSE IF io = "read_error"
             THEN /\ listed' = Append(listed, [code |-> "200", success |-> FALSE,
                                               passwords |-> <<>>])
                  /\ UNCHANGED vault
             ELSE LET result == list_all_passwords(vault, io = "ok") IN
                  /\ listed' = Append(listed, [code |-> "200", success |-> TRUE,
                                               passwords |-> result.passwords])
                  /\ vault' = result.vault
    /\ UNCHANGED <<now, thread, audit, hist>>
    /\ UNCHANGED <<genVars, probeVars, regVars>>

\* the server process dies while thread t is inside create_vault_structure:
\* every thread stops and only the vault directory is left of what the threads
\* were doing. open(current_file, 'w') truncates the pointer file before the
\* path is written, so a death during one of the two pointer writes can leave
\* the file empty.
Crash(t) ==
    /\ Creating(t, thread[t].server, thread[t].username)
    /\ \E torn \in BOOLEAN :
          /\ torn => thread[t].pc \in {"c_pointer", "c_swap"}
          /\ vault' = IF torn
                      THEN WriteEntry(vault,
                              current_file(thread[t].server, thread[t].username),
                              <<>>)
                      ELSE vault
    /\ thread' = [u \in Threads |-> [Idle EXCEPT !.pc = "crashed"]]
    /\ UNCHANGED <<now, audit, hist, started, faults, listed>>
    /\ UNCHANGED <<genVars, probeVars, regVars>>

VaultNext ==
    \/ Tick
    \/ ListPasswords
    \/ \E t \in Threads :
          \/ StartCreate(t)
          \/ CreateMkdir(t)
          \/ CreatePlain(t)
          \/ CreatePointer(t)
          \/ CreateTimestamp(t)
          \/ CreateEncrypt(t)
          \/ CreateRemove(t)
          \/ CreateSwap(t)
          \/ CreateTouch(t)
          \/ StartRetrieve(t)
          \/ RetrieveRead(t)
          \/ RetrieveDecrypt(t)
          \/ RetrieveTouch(t)
          \/ Crash(t)

(***************************************************************************)
(* The server registry servers.json, the session and the routes            *)
(***************************************************************************)

\* Registry and route requests received in one run.
MaxCalls == 2
\* Server threads handling registry requests.
NumWorkers == 2

Workers == 1..NumWorkers

Entry(name, ip, status) == [name |-> name, ip |-> ip, status |-> status]

\* the three fields of MOCK_SERVERS the routes read or write
MOCK_SERVERS ==
    << Entry("valheim", "192.168.1.100", "online"),
       Entry("archie", "192.168.1.101", "online"),
       Entry("zero", "192.168.1.102", "offline") >>

\* servers.json as the server may find it when it starts: absent, or holding
\* a list written earlier (by this program or by hand)
Registries ==
    { [exists |-> FALSE, servers |-> <<>>],
      [exists |-> TRUE, servers |-> <<Entry("web", "10.0.0.1", "unknown")>>],
      [exists |-> TRUE, servers |-> <<Entry("web", "10.0.0.1", "online"),
                                      Entry("db", "10.0.0.2", "pending")>>] }

\* load_servers: the list read from the file, or the list object
\* MOCK_SERVERS itself (not a copy) when the file is absent; an unreadable
\* file is answered like an absent one and is not explored separately
load_servers(file) ==
    IF file.exists
    THEN [alias |-> FALSE, servers |-> file.servers]
    ELSE [alias |-> TRUE, servers |-> <<>>]

\* save_servers: the file rewritten with the whole list; a failure is caught,
\* printed and turned into False
save_servers(file, servers, ok) ==
    IF ok THEN [exists |-> TRUE, servers |-> servers] ELSE file

\* the outcomes of the ping subprocess of test_connectivity
PingRuns ==
    {"ok", "packet_loss", "timeout_text", "other_nonzero", "expired",
     "unavailable", "exception"}

\* test_connectivity: always a dict with the keys ping and error
test_connectivity(run, sock) ==
    CASE run = "ok" -> [ping |-> TRUE, error |-> None]
      [] run = "packet_loss" -> [ping |-> FALSE, error |-> "Host unreachable"]
      [] run \in {"timeout_text", "expired"} ->
            [ping |-> FALSE, error |-> "Ping timeout"]
      [] run \in {"other_nonzero", "unavailable"} ->
            [ping |-> sock,
             error |-> IF sock THEN None ELSE "No accessible ports found"]
      [] OTHER -> [ping |-> FALSE, error |-> "Connectivity test error"]

\* bool(d) of a dict: true unless the dict has no key
Truthy(d) == DOMAIN d # {}

\* the statuses index leaves alone
KnownStatuses == {"online", "offline", "degraded"}

\* the values perform_health_check gives overall_status
OverallStatuses == {"healthy", "degraded", "unhealthy", "error"}

\* the stored status both sweeps derive from an overall status
StoredStatus(o) ==
    IF o = "healthy" THEN "online"
    ELSE IF o = "degraded" THEN "degraded" ELSE "offline"

\* the password login compares with, as a sequence of characters
ADMIN_PASSWORD == <<"a", "d", "m", "i", "n", "1", "2", "3">>

\* passwords a client may send: the built-in one, one of 8 characters, one of
\* 5 and none
Passwords ==
    { ADMIN_PASSWORD, <<"n", "e", "w", "p", "a", "s", "s", "1">>,
      <<"s", "h", "o", "r", "t">>, <<>> }

NoReply == [op |-> "none", code |-> "", error |-> "", servers |-> <<>>]

NoLogin == [username |-> "", password |-> <<>>, ok |-> FALSE, after |-> <<>>]

IdleWorker ==
    [pc |-> "idle", op |-> "none", arg |-> <<>>, alias |-> FALSE,
     servers |-> <<>>, i |-> 0, results |-> <<>>]

RegistryInit ==
    /\ session = {}
    /\ registry \in Registries
    /\ mock = MOCK_SERVERS
    /\ worker = [t \in Workers |-> IdleWorker]
    /\ reply = NoReply
    /\ calls = 0
    /\ added = {}
    /\ changed = <<>>
    /\ lastLogin = NoLogin

\* the registry left alone: servers.json absent, nobody logged in
RegistryRest ==
    /\ session = {}
    /\ registry = [exists |-> FALSE, servers |-> <<>>]
    /\ mock = MOCK_SERVERS
    /\ worker = [t \in Workers |-> IdleWorker]
    /\ reply = NoReply
    /\ calls = 0
    /\ added = {}
    /\ changed = <<>>
    /\ lastLogin = NoLogin

\* 'authenticated' in session
Authenticated == "authenticated" \in session

\* the list a handler holds in its local variable servers: its own list, or
\* MOCK_SERVERS when load_servers handed that object out
LocalIn(w, m) == IF w.alias THEN m ELSE w.servers
Local(t) == LocalIn(worker[t], mock)

\* a request is given to the lowest-numbered idle thread
Accepts(t) ==
    /\ calls < MaxCalls
    /\ worker[t].pc = "idle"
    /\ \A u \in Workers : u < t => worker[u].pc # "idle"

\* return jsonify(...), code from a handler that has touched nothing
Answer(op, code, error) ==
    /\ reply' = [op |-> op, code |-> code, error |-> error, servers |-> <<>>]
    /\ UNCHANGED <<session, registry, mock, worker, added, changed, lastLogin>>

\* the handler goes on past its checks, run by thread t
Enter(t, op, pc, arg) ==
    /\ worker' = [worker EXCEPT ![t] =
          [IdleWorker EXCEPT !.pc = pc, !.op = op, !.arg = arg, !.i = 1]]
    /\ UNCHANGED <<session, registry, mock, reply, added, changed, lastLogin>>

\* servers = load_servers()
Load(t, next) ==
    LET r == load_servers(registry) IN
    worker' = [worker EXCEPT ![t].alias = r.alias, ![t].servers = r.servers,
                             ![t].pc = next, ![t].i = 1]

\* the handler's list becomes list (an in-place change reaches MOCK_SERVERS
\* when the list is that object) and the thread record becomes w
Mutate(t, list, w) ==
    IF worker[t].alias
    THEN /\ mock' = list
         /\ worker' = [worker EXCEPT ![t] = w]
    ELSE /\ mock' = mock
         /\ worker' = [worker EXCEPT ![t] = [w EXCEPT !.servers = list]]

\* save_servers(list) and the answer, which ends the request
SaveAndAnswer(t, list, ok, code, error, body) ==
    /\ registry' = save_servers(registry, list, ok)
    /\ reply' = [op |-> worker[t].op, code |-> code, error |-> error,
                 servers |-> body]
    /\ worker' = [worker EXCEPT ![t] = IdleWorker]

\* the credentials a client may post to /login
Credentials ==
    { <<"admin", ADMIN_PASSWORD>>,
      <<"admin", <<"n", "e", "w", "p", "a", "s", "s", "1">>>>,
      <<"root", ADMIN_PASSWORD>> }

\* POST /login
Login ==
    /\ \E c \in Credentials :
          LET ok == c[1] = "admin" /\ c[2] = ADMIN_PASSWORD IN
          /\ session' = IF ok THEN {"authenticated", "username"} ELSE session
          /\ lastLogin' = [username |-> c[1], password |-> c[2], ok |-> ok,
                           after |-> changed]
    /\ UNCHANGED <<registry, mock, worker, reply, calls, added, changed>>
    /\ UNCHANGED <<genVars, probeVars, vaultVars>>

\* GET /logout: session.clear()
Logout ==
    /\ session' = {}
    /\ UNCHANGED <<registry, mock, worker, reply, calls, added, changed,
                   lastLogin>>
    /\ UNCHANGED <<genVars, probeVars, vaultVars>>

\* GET /: the guard of index
StartIndex(t) ==
    /\ Accepts(t)
    /\ calls' = calls + 1
    /\ IF ~Authenticated
       THEN Answer("index", "302", "")
       ELSE Enter(t, "index", "i_load", <<>>)
    /\ UNCHANGED <<genVars, probeVars, vaultVars>>

IndexLoad(t) ==
    /\ worker[t].pc = "i_load"
    /\ Load(t, "i_loop")
    /\ UNCHANGED <<session, registry, mock, reply, calls, added, changed,
                   lastLogin>>
    /\ UNCHANGED <<genVars, probeVars, vaultVars>>

\* one iteration of the loop of index over its list
IndexLoop(t) ==
    /\ worker[t].pc = "i_loop"
    /\ LET servers == Local(t)
           i == worker[t].i
       IN IF i > Len(servers)
          THEN worker' = [worker EXCEPT ![t].pc = "i_save"] /\ UNCHANGED mock
          ELSE IF servers[i].status \in KnownStatuses
          THEN worker' = [worker EXCEPT ![t].i = i + 1] /\ UNCHANGED mock
          ELSE \E run \in PingRuns, sock \in BOOLEAN :
                  LET result == test_connectivity(run, sock)
                      status == IF Truthy(result) THEN "online" ELSE "offline"
                  IN Mutate(t, [servers EXCEPT ![i].status = status],
                            [worker[t] EXCEPT
                                !.i = i + 1,
                                !.results =
                                    <<[ip |-> servers[i].ip,
                                       overall |-> IF result.ping THEN "up"
                                                   ELSE "down"]>>])
    /\ UNCHANGED <<session, registry, reply, calls, added, changed, lastLogin>>
    /\ UNCHANGED <<genVars, probeVars, vaultVars>>

\* save_servers(servers) and the page
IndexSave(t) ==
    /\ worker[t].pc = "i_save"
    /\ \E ok \in BOOLEAN :
          SaveAndAnswer(t, Local(t), ok, "200", "", Local(t))
    /\ UNCHANGED <<session, mock, calls, added, changed, lastLogin>>
    /\ UNCHANGED <<genVars, probeVars, vaultVars>>

\* what stops add_server before it reaches the registry, "ok" when nothing
AddObstacles == {"ok", "unreachable", "no_key", "setup_failed", "exception"}

\* POST /api/add_server up to `if script_result['success']`
StartAdd(t) ==
    /\ Accepts(t)
    /\ calls' = calls + 1
    /\ \E hostname \in {"", "new"}, ip_address \in {"10.0.0.9"},
          env \in AddObstacles :
          IF ~Authenticated THEN Answer("add_server", "401", "Unauthorized")
          ELSE IF hostname = ""
          THEN Answer("add_server", "400", "Hostname and IP address required")
          ELSE IF env = "unreachable"
          THEN Answer("add_server", "400", "Connectivity test failed")
          ELSE IF env = "no_key"
          THEN Answer("add_server", "400", "SSH private key not found")
          ELSE IF env = "setup_failed"
          THEN Answer("add_server", "400", "Server setup failed")
          ELSE IF env = "exception"
          THEN Answer("add_server", "500", "Error adding server")
          ELSE Enter(t, "add_server", "a_load", <<hostname, ip_address>>)
    /\ UNCHANGED <<genVars, probeVars, vaultVars>>

AddLoad(t) ==
    /\ worker[t].pc = "a_load"
    /\ Load(t, "a_save")
    /\ UNCHANGED <<session, registry, mock, reply, calls, added, changed,
                   lastLogin>>
    /\ UNCHANGED <<genVars, probeVars, vaultVars>>

\* servers.append(new_server), save_servers(servers) and the success answer
AddSave(t) ==
    /\ worker[t].pc = "a_save"
    /\ \E ok \in BOOLEAN :
          LET list == Append(Local(t),
                             Entry(worker[t].arg[1], worker[t].arg[2], "online"))
          IN /\ registry' = save_servers(registry, list, ok)
             /\ mock' = IF worker[t].alias THEN list ELSE mock
             /\ added' = IF ok THEN added \cup {worker[t].arg[1]} ELSE added
    /\ reply' = [op |-> "add_server", code |-> "200", error |-> "",
                 servers |-> <<>>]
    /\ worker' = [worker EXCEPT ![t] = IdleWorker]
    /\ UNCHANGED <<session, calls, changed, lastLogin>>
    /\ UNCHANGED <<genVars, probeVars, vaultVars>>

\* GET /api/servers
get_servers(t) ==
    /\ Accepts(t)
    /\ calls' = calls + 1
    /\ IF ~Authenticated THEN Answer("get_servers", "401", "Unauthorized")
       ELSE /\ reply' = [op |-> "get_servers", code |-> "200", error |-> "",
                         servers |-> LocalIn(load_servers(registry), mock)]
            /\ UNCHANGED <<session, registry, mock, worker, added, changed,
                           lastLogin>>
    /\ UNCHANGED <<genVars, probeVars, vaultVars>>

\* faulty variant: remove_server without its session check
StartRemoveUnguarded(t) ==
    /\ Accepts(t)
    /\ calls' = calls + 1
    /\ \E server_name \in {"", "web", "new"} :
          IF server_name = ""
          THEN Answer("remove_server", "400", "Server name required")
          ELSE Enter(t, "remove_server", "r_load", <<server_name>>)
    /\ UNCHANGED <<genVars, probeVars, vaultVars>>

\* POST /api/remove_server up to load_servers
StartRemove(t) ==
    /\ Accepts(t)
    /\ calls' = calls + 1
    /\ \E server_name \in {"", "web", "new"} :
          IF ~Authenticated THEN Answer("remove_server", "401", "Unauthorized")
          ELSE IF server_name = ""
          THEN Answer("remove_server", "400", "Server name required")
          ELSE Enter(t, "remove_server", "r_load", <<server_name>>)
    /\ UNCHANGED <<genVars, probeVars, vaultVars>>

\* load_servers, the filtered copy and the 404 answer
RemoveLoad(t) ==
    /\ worker[t].pc = "r_load"
    /\ LET loaded == LocalIn(load_servers(registry), mock)
           servers == SelectSeq(loaded, LAMBDA s : s.name # worker[t].arg[1])
       IN IF Len(servers) = Len(loaded)
          THEN /\ reply' = [op |-> "remove_server", code |-> "404",
                            error |-> "not found", servers |-> <<>>]
               /\ worker' = [worker EXCEPT ![t] = IdleWorker]
          ELSE /\ worker' = [worker EXCEPT ![t].servers = servers,
                                           ![t].pc = "r_save"]
               /\ UNCHANGED reply
    /\ UNCHANGED <<session, registry, mock, calls, added, changed, lastLogin>>
    /\ UNCHANGED <<genVars, probeVars, vaultVars>>

\* `if save_servers(servers)` and the two answers
RemoveSave(t) ==
    /\ worker[t].pc = "r_save"
    /\ \E ok \in BOOLEAN :
          /\ IF ok
             THEN SaveAndAnswer(t, worker[t].servers, ok, "200", "",
                                worker[t].servers)
             ELSE SaveAndAnswer(t, worker[t].servers, ok, "500",
                                "Failed to save server list", <<>>)
          /\ added' = IF ok THEN added \ {worker[t].arg[1]} ELSE added
    /\ UNCHANGED <<session, mock, calls, changed, lastLogin>>
    /\ UNCHANGED <<genVars, probeVars, vaultVars>>

\* POST /api/health_check_all: the guard
StartSweep(t) ==
    /\ Accepts(t)
    /\ calls' = calls + 1
    /\ IF ~Authenticated
       THEN Answer("health_check_all", "400", "Unauthorized")
       ELSE Enter(t, "health_check_all", "h_load", <<>>)
    /\ UNCHANGED <<genVars, probeVars, vaultVars>>

SweepLoad(t) ==
    /\ worker[t].pc = "h_load"
    /\ Load(t, "h_loop")
    /\ UNCHANGED <<session, registry, mock, reply, calls, added, changed,
                   lastLogin>>
    /\ UNCHANGED <<genVars, probeVars, vaultVars>>

\* one iteration of the loop of health_check_all: the probe of one server and
\* the status derived from it
SweepProbe(t) ==
    /\ worker[t].pc = "h_loop"
    /\ LET servers == Local(t)
           i == worker[t].i
       IN IF i > Len(servers)
          THEN worker' = [worker EXCEPT ![t].pc = "h_save"] /\ UNCHANGED mock
          ELSE \E o \in OverallStatuses :
                  Mutate(t, [servers EXCEPT ![i].status = StoredStatus(o)],
                         [worker[t] EXCEPT
                             !.i = i + 1,
                             !.results = <<[ip |-> servers[i].ip,
                                            overall |-> o]>>])
    /\ UNCHANGED <<session, registry, reply, calls, added, changed, lastLogin>>
    /\ UNCHANGED <<genVars, probeVars, vaultVars>>

SweepSave(t) ==
    /\ worker[t].pc = "h_save"
    /\ \E ok \in BOOLEAN : SaveAndAnswer(t, Local(t), ok, "200", "", <<>>)
    /\ UNCHANGED <<session, mock, calls, added, changed, lastLogin>>
    /\ UNCHANGED <<genVars, probeVars, vaultVars>>

\* the ip of each entry of the servers list a client may post; "" is an entry
\* without ip
Targets == { <<>>, <<"10.0.0.1">>, <<"", "192.168.1.102">> }

\* POST /api/health_check_targeted: the guard and the empty-list check
StartTargeted(t) ==
    /\ Accepts(t)
    /\ calls' = calls + 1
    /\ \E target_servers \in Targets :
          IF ~Authenticated
          THEN Answer("health_check_targeted", "400", "Unauthorized")
          ELSE IF target_servers = <<>>
          THEN Answer("health_check_targeted", "400", "No servers specified")
          ELSE Enter(t, "health_check_targeted", "t_probe", target_servers)
    /\ UNCHANGED <<genVars, probeVars, vaultVars>>

\* one iteration of the loop over target_servers
TargetedProbe(t) ==
    /\ worker[t].pc = "t_probe"
    /\ LET i == worker[t].i IN
       IF i > Len(worker[t].arg)
       THEN worker' = [worker EXCEPT ![t].pc = "t_load"]
       ELSE IF worker[t].arg[i] = ""
       THEN worker' = [worker EXCEPT ![t].i = i + 1]
       ELSE \E o \in OverallStatuses :
               worker' = [worker EXCEPT
                   ![t].i = i + 1,
                   ![t].results = Append(@, [ip |-> worker[t].arg[i],
                                             overall |-> o])]
    /\ UNCHANGED <<session, registry, mock, reply, calls, added, changed,
                   lastLogin>>
    /\ UNCHANGED <<genVars, probeVars, vaultVars>>

\* index of the first result for ip, 0 when there is none
RECURSIVE FirstResult(_, _, _)
FirstResult(results, ip, j) ==
    IF j > Len(results) THEN 0
    ELSE IF results[j].ip = ip THEN j
    ELSE FirstResult(results, ip, j + 1)

\* the update loop of health_check_targeted over the loaded list
ApplyResults(servers, results) ==
    [i \in 1..Len(servers) |->
        LET j == FirstResult(results, servers[i].ip, 1) IN
        IF j = 0 THEN servers[i]
        ELSE [servers[i] EXCEPT !.status = StoredStatus(results[j].overall)]]

\* load_servers and the update loop
TargetedLoad(t) ==
    /\ worker[t].pc = "t_load"
    /\ LET r == load_servers(registry)
           w == [worker[t] EXCEPT !.alias = r.alias, !.pc = "t_save"]
           list == ApplyResults(LocalIn(r, mock), worker[t].results)
       IN IF r.alias
          THEN mock' = list /\ worker' = [worker EXCEPT ![t] = w]
          ELSE /\ mock' = mock
               /\ worker' = [worker EXCEPT ![t] = [w EXCEPT !.servers = list]]
    /\ UNCHANGED <<session, registry, reply, calls, added, changed, lastLogin>>
    /\ UNCHANGED <<genVars, probeVars, vaultVars>>

TargetedSave(t) ==
    /\ worker[t].pc = "t_save"
    /\ \E ok \in BOOLEAN : SaveAndAnswer(t, Local(t), ok, "200", "", <<>>)
    /\ UNCHANGED <<session, mock, calls, added, changed, lastLogin>>
    /\ UNCHANGED <<genVars, probeVars, vaultVars>>

\* POST /api/change_admin_password
change_admin_password(t) ==
    /\ Accepts(t)
    /\ calls' = calls + 1
    /\ \E current_password \in {ADMIN_PASSWORD, <<"s", "h", "o", "r", "t">>},
          new_password \in Passwords :
          IF ~Authenticated
          THEN Answer("change_admin_password", "400", "Unauthorized")
          ELSE IF current_password = <<>> \/ new_password = <<>>
          THEN Answer("change_admin_password", "400",
                      "Current and new password required")
          ELSE IF current_password # ADMIN_PASSWORD
          THEN Answer("change_admin_password", "400",
                      "Current password is incorrect")
          ELSE IF Len(new_password) < 8
          THEN Answer("change_admin_password", "400",
                      "New password must be at least 8 characters long")
          ELSE /\ changed' = new_password
               /\ reply' = [op |-> "change_admin_password", code |-> "200",
                            error |-> "", servers |-> <<>>]
               /\ UNCHANGED <<session, registry, mock, worker, added, lastLogin>>
    /\ UNCHANGED <<genVars, probeVars, vaultVars>>

\* the code each of the other /api routes gives its Unauthorized answer
GuardCode ==
    [test_server |-> "401", validate_user |-> "401",
     change_user_password |-> "401", create_password |-> "401",
     retrieve_password |-> "401", list_passwords |-> "401",
     health_check |-> "400", debug_connectivity |-> "400",
     debug_ssh |-> "400", retry_server_setup |-> "400"]

\* the session check that opens each of the other /api routes; what the
\* handler does once past it is not part of the registry specification
Guard(t) ==
    /\ Accepts(t)
    /\ calls' = calls + 1
    /\ \E op \in DOMAIN GuardCode :
          IF ~Authenticated THEN Answer(op, GuardCode[op], "Unauthorized")
          ELSE Answer(op, "passed", "")
    /\ UNCHANGED <<genVars, probeVars, vaultVars>>

RegistryNext ==
    \/ Login
    \/ Logout
    \/ \E t \in Workers :
          \/ StartIndex(t) \/ IndexLoad(t) \/ IndexLoop(t) \/ IndexSave(t)
          \/ StartAdd(t) \/ AddLoad(t) \/ AddSave(t)
          \/ get_servers(t)
          \/ StartRemove(t) \/ RemoveLoad(t) \/ RemoveSave(t)
          \/ StartSweep(t) \/ SweepLoad(t) \/ SweepProbe(t) \/ SweepSave(t)
          \/ StartTargeted(t) \/ TargetedProbe(t) \/ TargetedLoad(t)
          \/ TargetedSave(t)
          \/ change_admin_password(t)
          \/ Guard(t)

(***************************************************************************)
(* Specifications                                                          *)
(***************************************************************************)

GenRest == genLen = 0 /\ genOut = <<>>

GenNext == Generate

\* the generator alone: the prober and the vault stay in their initial state
InitGen == GenInit /\ ProbeInit /\ VaultInit /\ RegistryRest

SpecGen == InitGen /\ [][GenNext]_vars

\* the prober or the vault alone: no password generation is pending
InitRest == GenRest /\ ProbeInit /\ VaultInit /\ RegistryRest

SpecProbe == InitRest /\ [][ProbeNext]_vars

SpecVault == InitRest /\ [][VaultNext]_vars

\* the registry and the session alone
InitRegistry == GenRest /\ ProbeInit /\ VaultInit /\ RegistryInit

SpecRegistry == InitRegistry /\ [][RegistryNext]_vars

(***************************************************************************)
(* Properties                                                              *)
(***************************************************************************)

InCreate == {"c_mkdir", "c_plain", "c_pointer", "c_timestamp", "c_encrypt",
             "c_remove", "c_swap"}
InRetrieve == {"r_read", "r_decrypt", "r_touch"}

\* no request is being handled
Quiescent == \A t \in Threads : Free(t)

\* C1: in every reachable state, the intermediate states of create calls
\* included, an existing pointer file names a file that exists.
C1_NoTornPointer ==
    \A k \in Pairs :
        Pointer(vault, k[1], k[2]) # <<>>
            => FileExists(vault, Pointer(vault, k[1], k[2]))

\* C2: a create_vault_structure call that fails, on a key that had a pointer
\* and with no other create on that key overlapping it, leaves the pointer
\* file holding the value it held before the call.
C2_FailureKeepsPointer ==
    [][\A t \in Threads :
          ( /\ thread[t].pc \in InCreate
            /\ thread'[t].pc = "done"
            /\ thread'[t].result = "failed"
            /\ thread'[t].quiet
            /\ thread[t].before # <<>> )
          => Pointer(vault', thread[t].server, thread[t].username)
                 = thread[t].before]_vars

\* the pointer of every pair names an existing file holding vault data
PointersNameVersions ==
    \A k \in Pairs :
        LET p == Pointer(vault, k[1], k[2]) IN
        p # <<>> => FileExists(vault, p) /\ IsVaultData(ReadFile(vault, p))

\* the encrypted files of v, as (directory, content) pairs
Versions(v) ==
    { <<d, v[d].files["password.txt.vault"]>> :
        d \in {e \in DOMAIN v : "password.txt.vault" \in DOMAIN v[e].files} }

\* C3: whenever all requests have completed, every pointer references an
\* existing encrypted version; and no step changes or removes an encrypted
\* version that exists.
C3_PointersValidVersionsImmutable ==
    [][ /\ Quiescent' => PointersNameVersions'
        /\ Versions(vault) \subseteq Versions(vault') ]_vars

\* the encrypted versions stored for a pair
VersionsOf(k) ==
    { d \in DOMAIN vault :
        /\ "password.txt.vault" \in DOMAIN vault[d].files
        /\ \E t \in 0..MaxTime : d = vault_dir(k[1], k[2], t) }

\* every create_vault_structure call made on the joined key of k was made for
\* k itself and succeeded
OnlySuccesses(k) ==
    /\ hist[k].calls = hist[k].n
    /\ KeyCalls(hist, k[1], k[2]) = hist[k].calls

\* C4: once all requests have completed, a key created successfully n times
\* (one creation and n-1 rotations, nothing else done to it) has exactly n
\* versions, whatever the timing of the calls, and a retrieval that follows
\* returns the password of the most recent one.
C4_RotationKeepsVersions ==
    /\ \A k \in Pairs :
          (Quiescent /\ hist[k].n >= 1 /\ OnlySuccesses(k))
              => Cardinality(VersionsOf(k)) = hist[k].n
    /\ \A t \in Threads :
          ( /\ thread[t].pc = "done" /\ thread[t].op = "retrieve"
            /\ thread[t].quiet /\ thread[t].result = "success" )
          => thread[t].out = thread[t].expect

HasClass(pw, class) == \E i \in 1..Len(pw) : pw[i] \in class

\* C6: for a requested length L >= 4 the generated password has length
\* exactly L and holds a lowercase letter, an uppercase letter, a digit and a
\* symbol, whatever the random choices and the shuffle.
C6_LengthAndClasses ==
    (genOut # <<>> /\ genLen >= 4)
        => /\ Len(genOut) = genLen
           /\ HasClass(genOut, lowercase)
           /\ HasClass(genOut, uppercase)
           /\ HasClass(genOut, digits)
           /\ HasClass(genOut, symbols)

C6_Witness == genLen > 4 /\ genOut # <<>> /\ genOut[1] \in symbols

LaterStageOps == {"auth_connect", "resource_connect", "exec"}

\* C8: when ping fails and the TCP connects to 22, 80 and 443 all fail, the
\* check reports the host offline with a non-empty troubleshooting list and
\* issues no operation of the authentication or resource stage.
C8_OfflineSkipsLaterStages ==
    (ppc = "done" /\ net.ping = "nonzero"
        /\ \A port \in PortSet : net.tcp[port] # "connect")
    => /\ checks["connectivity"].status = "offline"
       /\ advice # <<>>
       /\ \A i \in 1..Len(attempts) : attempts[i][1] \notin LaterStageOps

\* C9: perform_health_check always goes on to return, and what it returns
\* carries an overall status and the result of each of the four stages,
\* whatever the stages met (timeouts and exceptions included).
C9_AlwaysStructured ==
    /\ ppc # "done" => ENABLED ProbeNext
    /\ ppc = "done" =>
          /\ overall \in {"healthy", "degraded", "unhealthy", "error"}
          /\ Stages \subseteq DOMAIN checks
          /\ \A st \in Stages : checks[st].status # "RAISED"

C9_Witness ==
    /\ ppc = "done"
    /\ checks["connectivity"].status = "error"
    /\ checks["ssh_port"].status = "error"
    /\ checks["ssh_auth"].status = "error"
    /\ checks["system_resources"].status = "unknown"

\* C10: the step that ends a retrieval which reached the vault appends exactly
\* one audit entry, with action 'retrieve', the requested server and username
\* and the outcome of the retrieval; its other steps append none.
C10_RetrievalAudited ==
    [][\A t \in Threads :
          (thread[t].pc \in InRetrieve /\ thread'[t] # thread[t]) =>
              IF thread'[t].pc = "done"
              THEN audit' = Append(audit,
                      [user |-> "admin", action |-> "retrieve",
                       server |-> thread[t].server,
                       target_user |-> thread[t].username,
                       status |-> IF thread'[t].result = "success"
                                  THEN "success" ELSE "failed"])
              ELSE audit' = audit]_vars

C10_Witness ==
    /\ \E t \in Threads :
          thread[t].pc = "done" /\ thread[t].result = "decrypt_failed"
    /\ Len(audit) = 2
    /\ audit[2].action = "retrieve" /\ audit[2].status = "failed"


C12_NotFoundDistinct ==
    [][\A t \in Threads :
          (thread[t].pc \in InRetrieve /\ thread'[t].pc = "done") =>
              LET absent ==
                      /\ thread[t].pc = "r_read"
                      /\ current_file(thread[t].server, thread[t].username)
                             \notin DOMAIN vault
              IN /\ absent => /\ thread'[t].result # "success"
                              /\ thread'[t].out = <<>>
                 /\ thread'[t].result # "success" =>
                       (absent <=> ErrorText(thread'[t].result)
                                       = ErrorText("not_found"))]_vars

C12_Witness ==
    /\ \E t \in Threads :
          /\ thread[t].pc = "done" /\ thread[t].op = "retrieve"
          /\ thread[t].result = "not_found" /\ thread[t].out = <<>>
    /\ \E k \in Pairs : Pointer(vault, k[1], k[2]) # <<>>

\* the entries list_all_passwords reports for the joined key of pair k
EntriesOf(k) ==
    LET passwords == list_all_passwords(vault, TRUE).passwords IN
    { passwords[i] : i \in { j \in 1..Len(passwords) :
          Key(passwords[j].server, passwords[j].username) = Key(k[1], k[2]) } }

\* C13: for a key whose pointer was last written by a successful creation,
\* the last_updated that list_all_passwords reports lies between the second
\* named by the version directory and the second the creation completed.
C13_LastUpdatedIsCreationTime ==
    \A k \in Pairs :
        hist[k].clean =>
            \A e \in EntriesOf(k) :
                e.last_updated \in { isotime(t) : t \in hist[k].t0..hist[k].t1 }

\* the pointer files of the vault
PointerFiles == { f \in DOMAIN vault : EndsWith(f, CurrentSuffix) }

\* C14: list_all_passwords returns one entry per pointer file, and the entry
\* of a pointer last written by a successful creation for the pair k carries
\* the server and the username of k.
C14_ListNamesPairs ==
    /\ Len(list_all_passwords(vault, TRUE).passwords) = Cardinality(PointerFiles)
    /\ \A k \in Pairs :
          hist[k].clean =>
              /\ EntriesOf(k) # {}
              /\ \A e \in EntriesOf(k) : e.server = k[1] /\ e.username = k[2]

\* C15: in every reachable vault, a second list_all_passwords call made right
\* after a first one returns the same list.
C15_ListIdempotent ==
    LET first == list_all_passwords(vault, TRUE)
        second == list_all_passwords(first.vault, TRUE)
    IN second.passwords = first.passwords

\* C16: when the process dies inside a create_vault_structure call that no
\* other create call on the key overlapped, the pointer file of the key is
\* left either as it was before the call or naming the existing encrypted
\* file of the new version.
C16_CrashKeepsPointerWhole ==
    [][\A t \in Threads :
          ( /\ Creating(t, thread[t].server, thread[t].username)
            /\ SoloCreate(t)
            /\ thread'[t].pc = "crashed" )
          => LET name == current_file(thread[t].server, thread[t].username)
                 unchanged ==
                     IF thread[t].before = <<>> THEN name \notin DOMAIN vault'
                     ELSE /\ name \in DOMAIN vault'
                          /\ vault'[name].data = thread[t].before
                 swapped ==
                     /\ name \in DOMAIN vault'
                     /\ thread[t].dir # <<>>
                     /\ vault'[name].data = encrypted_file(thread[t].dir)
                     /\ FileExists(vault', encrypted_file(thread[t].dir))
             IN unchanged \/ swapped]_vars

\* the remote operations of the resource stage
ResourceOps == {"resource_connect", "exec"}

\* C17: in a finished health check the resource stage has issued remote
\* operations exactly when the authentication stage returned 'authenticated';
\* otherwise the resource check is the placeholder with status 'unknown'.
C17_ResourcesIffAuthenticated ==
    (ppc = "done" /\ Stages \subseteq DOMAIN checks) =>
        LET authenticated == checks["ssh_auth"].status = "authenticated"
            ran == \E i \in 1..Len(attempts) : attempts[i][1] \in ResourceOps
        IN /\ ran <=> authenticated
           /\ ~authenticated => checks["system_resources"] = resources_skipped
           /\ authenticated => checks["system_resources"].status # "unknown"

C17_Witness ==
    /\ ppc = "done"
    /\ Stages \subseteq DOMAIN checks
    /\ checks["ssh_auth"].status = "auth_failed"
    /\ checks["system_resources"].status = "unknown"

\* C18: the authentication stage reports a working session as 'authenticated',
\* a rejected credential as 'auth_failed', a missing key file as 'no_key' and
\* a protocol failure as 'ssh_error'; a rejected credential never gets a
\* transport status and a transport failure never gets an authentication
\* status.
C18_AuthStatusMapping ==
    "ssh_auth" \in DOMAIN checks =>
        LET status == checks["ssh_auth"].status IN
        /\ ~net.key => status = "no_key"
        /\ net.auth = "ok" => status = "authenticated"
        /\ net.auth = "auth_exception" => status = "auth_failed"
        /\ net.auth = "ssh_exception" => status = "ssh_error"
        /\ status \in {"ssh_error", "error"} => net.auth # "auth_exception"
        /\ status \in {"auth_failed", "no_key"}
              => net.auth \notin {"ssh_exception", "other_exception"}

C18_Witness ==
    /\ ppc = "done"
    /\ "ssh_auth" \in DOMAIN checks
    /\ net.key /\ net.auth = "auth_exception"
    /\ checks["ssh_auth"].status = "auth_failed"

\* the TCP connects among the remote operations issued, in order
TcpAttempts == SelectSeq(attempts, LAMBDA a : a[1] = "tcp")

\* C19: once the reachability stage has run with a failed or unavailable
\* ping, the TCP connects to 22, 80 and 443 were attempted in that order up to
\* the first that connected, and the host is reported online when one of
\* them connected and offline when none did.
C19_TcpFallbackAfterPing ==
    ("connectivity" \in DOMAIN checks
        /\ net.ping \in {"nonzero", "timeout", "unavailable"})
    => LET k == FirstConnect(net.tcp, 1)
           n == IF k = 0 THEN Len(ports) ELSE k
       IN /\ TcpAttempts = [i \in 1..n |-> <<"tcp", ports[i]>>]
          /\ checks["connectivity"].status
                 = IF k = 0 THEN "offline" ELSE "online"

\* the stage statuses that count as failed or degraded
Failing == [connectivity |-> {"offline"}, ssh_port |-> {"closed"},
            ssh_auth |-> {"auth_failed", "no_key"},
            system_resources |-> {"issues"}]
StageOrder == <<"connectivity", "ssh_port", "ssh_auth", "system_resources">>

\* C20: the aggregate troubleshooting list of a finished health check is made
\* of one entry per stage whose status is failed or degraded, in stage order,
\* and of nothing else.
C20_AdviceOnlyForFailedStages ==
    (ppc = "done" /\ Stages \subseteq DOMAIN checks) =>
        advice = SelectSeq(StageOrder,
                           LAMBDA st : checks[st].status \in Failing[st])

\* C30: for every requested length L, lengths below 4 included, the
\* generated password has length exactly L.
C30_LengthExact == genOut # <<>> => Len(genOut) = genLen

\* the readings of the three thresholded queries, in the order of details
ResourceQueries ==
    <<[reading |-> net.res.load, threshold |-> LoadThreshold],
      [reading |-> net.res.mem, threshold |-> MemoryThreshold],
      [reading |-> net.res.disk, threshold |-> DiskThreshold]>>

C22_HealthyOnlyWhenAllGood ==
    (ppc = "done" /\ Stages \subseteq DOMAIN checks /\ overall = "healthy") =>
        /\ checks["connectivity"].status = "online"
        /\ checks["ssh_port"].status = "open"
        /\ checks["ssh_auth"].status = "authenticated"
        /\ checks["system_resources"].status = "healthy"

\* the version directories of v that hold a plaintext password.txt
PlaintextDirs(v) == {d \in DOMAIN v : "password.txt" \in DOMAIN v[d].files}

\* C25: once every create_vault_structure call has completed, the failed
\* ones included, the vault holds no plaintext password file and no current
\* pointer names a plaintext file.
C25_NoPlaintextLeft ==
    Quiescent =>
        /\ PlaintextDirs(vault) = {}
        /\ \A k \in Pairs, d \in DOMAIN vault :
              Pointer(vault, k[1], k[2]) # password_file(d)

\* the vault state of a pair: its pointer file, its timestamp file and its
\* version directories, each with its content
PairState(v, k) ==
    { <<e, v[e]>> :
        e \in DOMAIN v \cap
              ( {current_file(k[1], k[2]), timestamp_file(k[1], k[2])}
                \cup {vault_dir(k[1], k[2], t) : t \in 0..MaxTime} ) }

\* C23: a step of a create or retrieve request for one (server, username)
\* pair leaves the pointer, the versions and the timestamp of every other
\* pair unchanged, the pairs ("a_b", "c") and ("a", "b_c") included.
C23_PairsDisjoint ==
    [][\A t \in Threads, k \in Pairs :
          ( /\ thread[t].pc \in InCreate \cup InRetrieve \cup {"c_touch"}
            /\ thread'[t] # thread[t]
            /\ thread'[t].pc # "crashed"
            /\ k # <<thread[t].server, thread[t].username>> )
          => PairState(vault', k) = PairState(vault, k)]_vars

\* the names of a server list
Names(servers) == {servers[i].name : i \in 1..Len(servers)}

\* the thread t ends a load-probe-save cycle with this step
EndsCycle(t) ==
    /\ worker[t].op \in {"index", "health_check_all", "health_check_targeted"}
    /\ worker[t].pc \in {"i_save", "h_save", "t_save"}
    /\ worker'[t].pc = "idle"

\* C24: a server add_server has added and answered success for, while a
\* health sweep or index was between its load and its save, is still in
\* servers.json when the sweep or index has finished.
C24_AddSurvivesSweep ==
    [][\A t \in Workers :
          (EndsCycle(t) /\ added \subseteq Names(registry.servers))
              => added \subseteq Names(registry'.servers)]_vars

\* C26: on index, a server whose stored status is none of online, offline and
\* degraded is marked online only if its connectivity test succeeded, and
\* offline if the test failed.
C26_IndexFollowsConnectivity ==
    [][\A t \in Workers :
          ( /\ worker[t].pc = "i_loop"
            /\ worker'[t].i = worker[t].i + 1
            /\ Local(t)[worker[t].i].status \notin KnownStatuses )
          => LET status == LocalIn(worker'[t], mock')[worker[t].i].status
                 test == worker'[t].results[1].overall
             IN /\ status = "online" => test = "up"
                /\ test = "down" => status = "offline"]_vars

\* C27: a request received without an authenticated session is answered
\* Unauthorized (the dashboard: redirected to the login page) with no server
\* list in the answer and leaves the registry, the handler threads and the
\* session as they were; the session becomes authenticated only by a login
\* with admin and the built-in password; and a session that stops being
\* authenticated is left empty.
C27_GuardedRoutes ==
    [][ /\ (calls' = calls + 1 /\ ~Authenticated)
            => /\ \/ reply'.error = "Unauthorized"
                  \/ reply'.op = "index" /\ reply'.code = "302"
               /\ reply'.servers = <<>>
               /\ UNCHANGED <<session, registry, mock, worker, added, changed>>
        /\ (~Authenticated /\ Authenticated')
            => /\ lastLogin'.ok
               /\ lastLogin'.username = "admin"
               /\ lastLogin'.password = ADMIN_PASSWORD
               /\ UNCHANGED <<calls, registry, mock, worker>>
        /\ (Authenticated /\ ~Authenticated') => session' = {} ]_vars

C27_Witness ==
    /\ added = {"new"}
    /\ session = {}
    /\ reply = [op |-> "remove_server", code |-> "401",
                error |-> "Unauthorized", servers |-> <<>>]
    /\ "new" \in Names(registry.servers)

\* C28: after change_admin_password has answered success for a new password,
\* a login with admin and the new password succeeds and a login with the old
\* password is rejected.
C28_NewPasswordTakesEffect ==
    ( /\ lastLogin.username = "admin"
      /\ lastLogin.after # <<>>
      /\ lastLogin.after # ADMIN_PASSWORD )
    => /\ lastLogin.password = lastLogin.after => lastLogin.ok
       /\ lastLogin.password = ADMIN_PASSWORD => ~lastLogin.ok

\* the registry as the routes see it: what load_servers returns
View(file, memory) == LocalIn(load_servers(file), memory)

\* the ips a health_check_targeted call has probed
ProbedIps(t) == {worker[t].results[j].ip : j \in 1..Len(worker[t].results)}

\* C29: an iteration of health_check_all sets the status of the probed entry
\* from that entry's result (healthy: online, degraded: degraded, otherwise
\* offline) and changes no other entry; the save that ends either sweep
\* neither adds nor removes registry entries; and the save of
\* health_check_targeted leaves every entry whose ip was not probed unchanged.
C29_SweepFrame ==
    [][\A t \in Workers :
          /\ ( /\ worker[t].pc = "h_loop"
               /\ worker'[t].i = worker[t].i + 1 )
             => LET before == Local(t)
                    after == LocalIn(worker'[t], mock')
                    i == worker[t].i
                IN /\ Len(after) = Len(before)
                   /\ after[i].status
                          = StoredStatus(worker'[t].results[1].overall)
                   /\ \A k \in 1..Len(before) : k # i => after[k] = before[k]
          /\ ( /\ worker[t].pc \in {"h_save", "t_save"}
               /\ worker'[t].pc = "idle" )
             => LET before == View(registry, mock)
                    after == View(registry', mock')
                IN /\ Len(after) = Len(before)
                   /\ \A k \in 1..Len(before) :
                         /\ after[k].name = before[k].name
                         /\ after[k].ip = before[k].ip
                         /\ ( /\ worker[t].pc = "t_save"
                              /\ before[k].ip \notin ProbedIps(t) )
                            => after[k] = before[k]]_vars

============================================================================
